---- MODULE Spec2Model ----
(***************************************************************************)
(* Model of the Project File Export Tool (src/main.py, class               *)
(* ProjectExportTool): the ignore-pattern set and its handlers, the tree   *)
(* builder, the content serializers and the four output formats.           *)
(*                                                                         *)
(* Python strings are TLA+ strings (Len, \o, SubSeq, Head and Tail work on *)
(* them in TLC).  The box-drawing prefixes of the tree view are written in *)
(* ASCII: "|   " stands for U+2502 + three spaces, "+-- " for U+251C U+2500 *)
(* U+2500 + space.  The backtick of the Markdown output is written "^"     *)
(* (a backtick cannot appear in a string of the module).                   *)
(***************************************************************************)
EXTENDS Integers, Sequences, FiniteSets, TLC

(***************************************************************************)
(* Bounds of the model                                                     *)
(***************************************************************************)
\* exports in one run of Spec
MaxExports == 1

\* exports in one run of SpecPair
MaxPairExports == 2

\* artifacts of earlier sessions present at the start
MaxStale == 1

\* files that cannot be read during one export
MaxUnreadable == 1

\* greatest value of the clock
MaxClock == 1

\* custom patterns in the ignore set
MaxCustom == 2

(***************************************************************************)
(* str methods                                                             *)
(***************************************************************************)
Char(s, i) == SubSeq(s, i, i)

startswith(s, p) == Len(p) <= Len(s) /\ SubSeq(s, 1, Len(p)) = p

endswith(s, p) == Len(p) <= Len(s) /\ SubSeq(s, Len(s) - Len(p) + 1, Len(s)) = p

\* the least element of a non-empty set of integers
Min(S) == CHOOSE i \in S : \A j \in S : i <= j

Max(S) == CHOOSE i \in S : \A j \in S : i >= j

\* the (1-based) indices where sub occurs in s
Occurrences(s, sub) ==
    {i \in 1..(Len(s) - Len(sub) + 1) : SubSeq(s, i, i + Len(sub) - 1) = sub}

\* the least element of a set of indices, 0 if it is empty
First(hits) == IF hits = {} THEN 0 ELSE Min(hits)

Last(hits) == IF hits = {} THEN 0 ELSE Max(hits)

\* s.find(sub, from): least index >= from where sub occurs, 0 if none
find(s, sub, from) == First({i \in Occurrences(s, sub) : i >= from})

contains(s, sub) == Occurrences(s, sub) # {}

\* s.rfind(c): greatest index <= i where the character c occurs, 0 if none
rfind(s, c, i) == Last({j \in Occurrences(s, c) : j <= i})

\* the occurrences a left-to-right scan takes: the least of those still
\* ahead, then on from its end
RECURSIVE scanAhead(_, _, _)
scanAhead(hits, ahead, n) ==
    IF ahead = {} THEN <<>>
    ELSE <<Min(ahead)>>
         \o scanAhead(hits, {i \in hits : i >= Min(ahead) + n}, n)

scan(hits, from, n) == scanAhead(hits, {i \in hits : i >= from}, n)

\* s.count(sub): number of non-overlapping occurrences
count(s, sub) ==
    IF sub = "" THEN 0 ELSE Len(scan(Occurrences(s, sub), 1, Len(sub)))

RECURSIVE replaceAt(_, _, _, _, _)
replaceAt(s, at, from, n, new) ==
    IF at = <<>> THEN SubSeq(s, from, Len(s))
    ELSE SubSeq(s, from, Head(at) - 1) \o new
         \o replaceAt(s, Tail(at), Head(at) + n, n, new)

\* s.replace(old, new): every non-overlapping occurrence, left to right
replace(s, old, new) ==
    IF old = "" THEN s
    ELSE replaceAt(s, scan(Occurrences(s, old), 1, Len(old)), 1, Len(old), new)

IsSpace(c) == c \in {" ", "\t", "\n", "\r"}

RECURSIVE lstrip(_)
lstrip(s) == IF s # "" /\ IsSpace(Head(s)) THEN lstrip(Tail(s)) ELSE s

RECURSIVE rstrip(_)
rstrip(s) ==
    IF s # "" /\ IsSpace(Char(s, Len(s)))
    THEN rstrip(SubSeq(s, 1, Len(s) - 1)) ELSE s

strip(s) == rstrip(lstrip(s))

UPPERCASE == "ABCDEFGHIJKLMNOPQRSTUVWXYZ"

LOWERCASE == "abcdefghijklmnopqrstuvwxyz"

RECURSIVE lower(_)
lower(s) ==
    IF s = "" THEN ""
    ELSE LET i == find(UPPERCASE, Head(s), 1)
         IN  (IF i = 0 THEN Head(s) ELSE Char(LOWERCASE, i)) \o lower(Tail(s))

RECURSIVE splitAt(_, _, _)
splitAt(s, at, from) ==
    IF at = <<>> THEN <<SubSeq(s, from, Len(s))>>
    ELSE <<SubSeq(s, from, Head(at) - 1)>> \o splitAt(s, Tail(at), Head(at) + 1)

\* s.split(sep) for a one-character separator
split(s, sep) == splitAt(s, scan(Occurrences(s, sep), 1, 1), 1)

\* sep.join(parts)
RECURSIVE strjoin(_, _)
strjoin(sep, parts) ==
    IF parts = <<>> THEN ""
    ELSE IF Len(parts) = 1 THEN parts[1]
    ELSE parts[1] \o sep \o strjoin(sep, Tail(parts))

DIGITS == "0123456789"

\* str(n) for a natural number
RECURSIVE str(_)
str(n) == IF n < 10 THEN Char(DIGITS, n + 1)
          ELSE str(n \div 10) \o Char(DIGITS, (n % 10) + 1)

\* the elements of a sequence that satisfy a test, in order
RECURSIVE SelectSeqBy(_, _)
SelectSeqBy(seq, keep) ==
    IF seq = <<>> THEN <<>>
    ELSE (IF Head(seq) \in keep THEN <<Head(seq)>> ELSE <<>>)
         \o SelectSeqBy(Tail(seq), keep)

Range(seq) == {seq[i] : i \in DOMAIN seq}

(***************************************************************************)
(* os.path (posixpath)                                                     *)
(***************************************************************************)
sep == "/"

basename(p) == SubSeq(p, rfind(p, sep, Len(p)) + 1, Len(p))

join(a, b) ==
    IF startswith(b, sep) THEN b
    ELSE IF a = "" \/ endswith(a, sep) THEN a \o b
    ELSE a \o sep \o b

\* the non-empty, non-"." components of a path
components(p) == SelectSeq(split(p, sep), LAMBDA c : c # "" /\ c # ".")

\* normpath of a path without ".." components
normpath(p) ==
    LET body == strjoin(sep, components(p))
    IN  IF startswith(p, sep) THEN sep \o body
        ELSE IF body = "" THEN "." ELSE body

RECURSIVE commonlen(_, _)
commonlen(a, b) ==
    IF a = <<>> \/ b = <<>> \/ Head(a) # Head(b) THEN 0
    ELSE 1 + commonlen(Tail(a), Tail(b))

RECURSIVE repeatSeq(_, _)
repeatSeq(x, n) == IF n = 0 THEN <<>> ELSE <<x>> \o repeatSeq(x, n - 1)

relpath(path, start) ==
    LET start_list == components(start)
        path_list == components(path)
        i == commonlen(start_list, path_list)
        rel_list == repeatSeq("..", Len(start_list) - i)
                    \o SubSeq(path_list, i + 1, Len(path_list))
    IN  IF rel_list = <<>> THEN "." ELSE strjoin(sep, rel_list)

\* number of "." characters at the start of a name
RECURSIVE leadingDots(_)
leadingDots(name) ==
    IF name # "" /\ Head(name) = "." THEN 1 + leadingDots(Tail(name)) ELSE 0

\* os.path.splitext(p)[1]: from the last dot of the basename, unless only
\* dots precede it
splitext_ext(p) ==
    LET name == basename(p)
        dot == rfind(name, ".", Len(name))
    IN  IF dot > leadingDots(name)
        THEN SubSeq(name, dot, Len(name)) ELSE ""

(***************************************************************************)
(* fnmatch.fnmatch: the pattern is translated element by element ("*",     *)
(* "?", "[seq]", "[!seq]", literal) and the whole name must match.         *)
(* Character ranges inside brackets (a-z) are not modelled; no pattern of  *)
(* the model uses one.                                                     *)
(***************************************************************************)
\* index of the "]" that closes the bracket pat starts with, 0 if none
BracketEnd(pat) ==
    LET j1 == IF Len(pat) >= 2 /\ Char(pat, 2) = "!" THEN 3 ELSE 2
        j2 == IF Len(pat) >= j1 /\ Char(pat, j1) = "]" THEN j1 + 1 ELSE j1
    IN  find(pat, "]", j2)

RECURSIVE fnmatchcase(_, _)
fnmatchcase(name, pat) ==
    IF pat = "" THEN name = ""
    ELSE LET c == Head(pat)
         IN  IF c = "*"
             THEN \E k \in 0..Len(name) :
                      fnmatchcase(SubSeq(name, k + 1, Len(name)), Tail(pat))
             ELSE IF c = "?"
             THEN name # "" /\ fnmatchcase(Tail(name), Tail(pat))
             ELSE IF c = "[" /\ BracketEnd(pat) # 0
             THEN LET j == BracketEnd(pat)
                      neg == Char(pat, 2) = "!"
                      stuff == SubSeq(pat, IF neg THEN 3 ELSE 2, j - 1)
                  IN  /\ name # ""
                      /\ contains(stuff, Head(name)) # neg
                      /\ fnmatchcase(Tail(name), SubSeq(pat, j + 1, Len(pat)))
             ELSE name # "" /\ Head(name) = c
                  /\ fnmatchcase(Tail(name), Tail(pat))

\* posix os.path.normcase is the identity
fnmatch(name, pattern) == fnmatchcase(name, pattern)

(***************************************************************************)
(* The project directory on disk.  The user's files are fixed:             *)
(*     /proj/a.py  /proj/x.log  /proj/.git/config  /proj/sub/b.md          *)
(* Export artifacts come and go in /proj: disk maps every artifact path to  *)
(* the number of the export that wrote the file now there (0 for a file    *)
(* left by an earlier session, Absent for no file).  scandir order is the  *)
(* order in which the names are listed below.                              *)
(***************************************************************************)
ROOT == "/proj"

DirPaths == {"/proj", "/proj/.git", "/proj/sub"}

isdir(p) == normpath(p) \in DirPaths

Dirnames(dirpath) ==
    IF normpath(dirpath) = "/proj" THEN <<".git", "sub">> ELSE <<>>

UserFilenames(dirpath) ==
    CASE normpath(dirpath) = "/proj" -> <<"a.py", "x.log">>
      [] normpath(dirpath) = "/proj/.git" -> <<"config">>
      [] normpath(dirpath) = "/proj/sub" -> <<"b.md">>
      [] OTHER -> <<>>

UserFiles == {"/proj/a.py", "/proj/x.log", "/proj/.git/config", "/proj/sub/b.md"}

\* the files whose open() may fail in the model
FaultCandidates == {"/proj/a.py", "/proj/sub/b.md"}

FileText(p) ==
    CASE p = "/proj/a.py" -> "x=1"
      [] p = "/proj/x.log" -> "log"
      [] p = "/proj/.git/config" -> "[core]"
      [] p = "/proj/sub/b.md" -> "# hi"
      [] OTHER -> ""

Formats == <<"Text", "Markdown", "JSON", "YAML">>

\* export_project: the extension of a format name
Extension(export_format) ==
    CASE export_format = "text" -> ".txt"
      [] export_format = "markdown" -> ".md"
      [] export_format = "json" -> ".json"
      [] export_format = "yaml" -> ".yaml"
      [] OTHER -> ".txt"

\* a naming that ignores the structure-only checkbox
OutputFileAlt(dir, format, structure_only) ==
    join(dir, basename(dir) \o "_structure" \o "_and_content"
              \o Extension(lower(format)))

\* export_project: the path of the artifact
OutputFile(dir, format, structure_only) ==
    join(dir, basename(dir) \o "_structure"
              \o (IF ~structure_only THEN "_and_content" ELSE "")
              \o Extension(lower(format)))

\* every artifact path of ROOT, in scandir order
ArtifactOrder ==
    << OutputFile(ROOT, "Text", TRUE), OutputFile(ROOT, "Text", FALSE),
       OutputFile(ROOT, "Markdown", TRUE), OutputFile(ROOT, "Markdown", FALSE),
       OutputFile(ROOT, "JSON", TRUE), OutputFile(ROOT, "JSON", FALSE),
       OutputFile(ROOT, "YAML", TRUE), OutputFile(ROOT, "YAML", FALSE) >>

ArtifactPaths == Range(ArtifactOrder)

Absent == -1

Present(dsk) == {p \in ArtifactPaths : dsk[p] # Absent}

RECURSIVE basenames(_)
basenames(paths) ==
    IF paths = <<>> THEN <<>>
    ELSE <<basename(Head(paths))>> \o basenames(Tail(paths))

\* the file names scandir yields for a directory
Filenames(dirpath, dsk) ==
    UserFilenames(dirpath)
    \o (IF normpath(dirpath) = ROOT
        THEN basenames(SelectSeqBy(ArtifactOrder, Present(dsk)))
        ELSE <<>>)

\* os.walk(top), top-down: (dirpath, dirnames, filenames) of top, then the
\* walk of each subdirectory in turn
RECURSIVE walkEach(_, _, _)
RECURSIVE walk(_, _)
walk(top, dsk) ==
    IF ~isdir(top) THEN <<>>
    ELSE <<[dirpath |-> top, dirnames |-> Dirnames(top),
            filenames |-> Filenames(top, dsk)]>>
         \o walkEach(top, Dirnames(top), dsk)

walkEach(top, names, dsk) ==
    IF names = <<>> THEN <<>>
    ELSE walk(join(top, Head(names)), dsk) \o walkEach(top, Tail(names), dsk)

(***************************************************************************)
(* State                                                                   *)
(***************************************************************************)
VARIABLES
    current_dir,         \* self.current_dir; "" is None
    ignore_patterns,     \* self.ignore_patterns
    ignore_defaults_cb,  \* the "Use Default Ignore Patterns" checkbox
    ignore_display,      \* the patterns shown (sorted, so a function of the set)
    file_model,          \* the root-level items of the tree view
    status_edit,         \* the status line
    disk,                \* artifact files present in /proj
    clock,               \* datetime.now()
    exports,             \* number of export_project calls made
    ret,                 \* the last should_ignore call and its result
    last,                \* the last export_project call and what it wrote
    prev                 \* the export_project call before the last one

vars == <<current_dir, ignore_patterns, ignore_defaults_cb, ignore_display,
          file_model, status_edit, disk, clock, exports, ret, last, prev>>

(***************************************************************************)
(* The ignore filter                                                       *)
(***************************************************************************)
DEFAULT_IGNORE_PATTERNS ==
    { ".git", ".gitignore", "__pycache__", "*.pyc", ".DS_Store",
      "node_modules", ".idea", ".vscode", "*.log", "*.tmp", "*.temp",
      "*.swp", "~*", "Thumbs.db", "desktop.ini" }

\* a filter that matches the whole path instead of its basename
should_ignore_fullpath(path, patterns) ==
    \E pattern \in patterns : fnmatch(path, pattern)

should_ignore(path, patterns) ==
    LET name == basename(path)
    IN  \E pattern \in patterns : fnmatch(name, pattern)

\* populate_file_tree with no filter text: the root-level entries that are
\* not ignored, directories then files, each sorted
populate_file_tree(directory, patterns, dsk) ==
    [ dirs |-> {n \in Range(Dirnames(directory)) :
                   ~should_ignore(join(directory, n), patterns)},
      files |-> {n \in Range(Filenames(directory, dsk)) :
                   ~should_ignore(join(directory, n), patterns)} ]

EmptyModel == [dirs |-> {}, files |-> {}]

Checked == 2

Unchecked == 0

\* a handler that adds the defaults to what the set holds
toggle_ignore_patterns_keep(state) ==
    /\ ignore_patterns' = (IF state = Checked
                           THEN ignore_patterns \cup DEFAULT_IGNORE_PATTERNS
                           ELSE {})
    /\ ignore_display' = ignore_patterns'
    /\ file_model' = IF current_dir # ""
                     THEN populate_file_tree(current_dir, ignore_patterns', disk)
                     ELSE file_model

\* the handler of the checkbox's stateChanged signal
toggle_ignore_patterns(state) ==
    /\ ignore_patterns' = (IF state = Checked
                           THEN DEFAULT_IGNORE_PATTERNS
                           ELSE {})
    /\ ignore_display' = ignore_patterns'
    /\ file_model' = IF current_dir # ""
                     THEN populate_file_tree(current_dir, ignore_patterns', disk)
                     ELSE file_model

\* the user clicks the checkbox: it flips and the signal fires
ToggleDefaults ==
    /\ ignore_defaults_cb' = ~ignore_defaults_cb
    /\ toggle_ignore_patterns(IF ignore_defaults_cb' THEN Checked ELSE Unchecked)
    /\ UNCHANGED <<current_dir, status_edit, disk, clock, exports, ret, last, prev>>

\* what the user may type in the pattern input
PatternInputs == {"", "  ", " *.md ", "a.py", "proj", "[ab].py"}

\* a handler that adds the input as typed, blank or not
add_ignore_pattern_raw(text) ==
    /\ Cardinality((ignore_patterns \cup {text}) \ DEFAULT_IGNORE_PATTERNS)
          <= MaxCustom
    /\ ignore_patterns' = ignore_patterns \cup {text}
    /\ ignore_display' = ignore_patterns'
    /\ file_model' =
           IF current_dir # ""
           THEN populate_file_tree(current_dir, ignore_patterns', disk)
           ELSE file_model
    /\ UNCHANGED <<current_dir, ignore_defaults_cb, status_edit, disk,
                   clock, exports, ret, last, prev>>

\* the handler of the Add button's clicked signal
add_ignore_pattern(text) ==
    LET pattern == strip(text)
    IN  /\ Cardinality((ignore_patterns \cup {pattern}) \ DEFAULT_IGNORE_PATTERNS)
              <= MaxCustom
        /\ IF pattern # ""
           THEN /\ ignore_patterns' = ignore_patterns \cup {pattern}
                /\ ignore_display' = ignore_patterns'
                /\ file_model' =
                       IF current_dir # ""
                       THEN populate_file_tree(current_dir, ignore_patterns', disk)
                       ELSE file_model
           ELSE UNCHANGED <<ignore_patterns, ignore_display, file_model>>
        /\ UNCHANGED <<current_dir, ignore_defaults_cb, status_edit, disk,
                       clock, exports, ret, last, prev>>

AddPattern == \E text \in PatternInputs : add_ignore_pattern(text)

\* the paths should_ignore is probed with
ProbePaths ==
    { "/proj/a.py", "/proj/x.log", "/proj/.git", "/proj/.git/config",
      "/proj/sub", "/proj/sub/b.md", "/proj/", "/proj" }

\* a call of should_ignore; ret records the call
CallShouldIgnore ==
    \E path \in ProbePaths :
        /\ ret' = [path |-> path, result |-> should_ignore(path, ignore_patterns)]
        /\ UNCHANGED <<current_dir, ignore_patterns, ignore_defaults_cb,
                       ignore_display, file_model, status_edit, disk, clock,
                       exports, last, prev>>

\* what the folder dialog or a drop may hand to process_folder
DirPathInputs == {"/proj", "/nowhere"}

\* process_folder returns at once when the path is not a directory
process_folder(dir_path) ==
    IF ~isdir(dir_path)
    THEN UNCHANGED vars
    ELSE /\ current_dir' = dir_path
         /\ file_model' = populate_file_tree(dir_path, ignore_patterns, disk)
         /\ status_edit' = "Loaded project: " \o dir_path
         /\ UNCHANGED <<ignore_patterns, ignore_defaults_cb, ignore_display,
                        disk, clock, exports, ret, last, prev>>

ProcessFolder == \E dir_path \in DirPathInputs : process_folder(dir_path)

(***************************************************************************)
(* Python values and dicts.  A value is modelled by its repr: 'text',      *)
(* None, True, False, 12.  A dict is the sequence of its (key, value)      *)
(* pairs in insertion order; the keys of the nested "metadata" dict are    *)
(* written "metadata.<key>".                                               *)
(***************************************************************************)
PyStr(s) == "'" \o s \o "'"

PyNone == "None"

PyBool(b) == IF b THEN "True" ELSE "False"

PyInt(n) == str(n)

IsPyStr(v) == Len(v) >= 2 /\ Head(v) = "'"

\* the text an f-string shows for a value
Format(v) == IF IsPyStr(v) THEN SubSeq(v, 2, Len(v) - 1) ELSE v

Keys(d) == {d[i][1] : i \in DOMAIN d}

Has(d, k) == k \in Keys(d)

Get(d, k) == d[CHOOSE i \in DOMAIN d : d[i][1] = k][2]

\* datetime.fromtimestamp(t).isoformat() of the model's clock values
isoformat(t) == "2024-01-01T00:00:" \o (IF t < 10 THEN "0" ELSE "") \o str(t)

(***************************************************************************)
(* Reading a file.  bad is the set of paths whose open() raises; open_out  *)
(* is the artifact the running export holds open for writing ("" if none): *)
(* it was truncated by open(.., "w") and nothing written to it has been    *)
(* flushed yet, so it reads as empty.                                      *)
(***************************************************************************)
ArtifactText(version) == "<export " \o str(version) \o ">"

\* of the files that may fail to be read, those that fail in file.read(),
\* their bytes not being UTF-8; the others fail in open()
DecodeFaults == {"/proj/sub/b.md"}

\* str(e) of the exception the read raises
ReadError(filepath) ==
    IF filepath \in DecodeFaults
    THEN "'utf-8' codec can't decode byte 0xff in position 0: invalid start byte"
    ELSE "[Errno 13] Permission denied: '" \o filepath \o "'"

Read(filepath, bad, dsk, open_out) ==
    IF filepath \in bad
    THEN [ok |-> FALSE, content |-> "", error |-> ReadError(filepath)]
    ELSE IF filepath = open_out
    THEN [ok |-> TRUE, content |-> "", error |-> ""]
    ELSE IF filepath \in ArtifactPaths
    THEN [ok |-> TRUE, content |-> ArtifactText(dsk[filepath]), error |-> ""]
    ELSE [ok |-> TRUE, content |-> FileText(filepath), error |-> ""]

\* os.stat(filepath).st_mtime, as an isoformat text
MTime(filepath, dsk, open_out, now) ==
    IF filepath = open_out THEN isoformat(now)
    ELSE IF filepath \in ArtifactPaths
    THEN "mtime of export " \o str(dsk[filepath])
    ELSE "2023-12-31T00:00:00"

(***************************************************************************)
(* Content serializers                                                     *)
(***************************************************************************)
write_file_content(filepath, is_markdown, root_dir, bad, dsk, open_out) ==
    LET normalized_path == replace(normpath(filepath), "\\", "/")
        rel_path == relpath(normalized_path, root_dir)
        r == Read(filepath, bad, dsk, open_out)
    IN  (IF is_markdown
         THEN "\n### File: ^" \o rel_path \o "^\n\n^^^\n"
         ELSE "\n<file path=\"" \o normalized_path \o "\">\n")
        \o (IF r.ok THEN r.content \o "\n"
            ELSE "Unable to read file content: " \o r.error \o "\n")
        \o (IF is_markdown THEN "^^^\n" ELSE "</file>\n")

\* a str read as UTF-8 text always encodes back to UTF-8
_is_text_file(content) == TRUE

_get_semantic_type(ext, content) ==
    IF ext \in {".py", ".js", ".java", ".cpp", ".cs"} THEN "source_code"
    ELSE IF ext \in {".md", ".txt", ".rst"} THEN "documentation"
    ELSE IF ext \in {".json", ".yaml", ".yml", ".xml"} THEN "data"
    ELSE IF ext \in {".jpg", ".png", ".gif", ".svg"} THEN "image"
    ELSE IF ext \in {".html", ".css"} THEN "web"
    ELSE IF ext \in {".conf", ".ini", ".env"} THEN "configuration"
    ELSE "unknown"

write_file_content_llm(filepath, root_dir, bad, dsk, open_out, now) ==
    LET normalized_path == replace(normpath(filepath), "\\", "/")
        rel_path == relpath(normalized_path, root_dir)
        r == Read(filepath, bad, dsk, open_out)
        content == r.content
        ext == lower(splitext_ext(filepath))
        content_preview == SubSeq(content, 1, IF Len(content) < 200
                                              THEN Len(content) ELSE 200)
                           \o (IF Len(content) > 200 THEN "..." ELSE "")
    IN  IF r.ok
        THEN << <<"file_path", PyStr(rel_path)>>,
                <<"file_type", PyStr(IF ext # "" THEN Tail(ext) ELSE "unknown")>>,
                <<"size_bytes", PyInt(Len(content))>>,
                <<"last_modified", PyStr(MTime(filepath, dsk, open_out, now))>>,
                <<"semantic_type", PyStr(_get_semantic_type(ext, content))>>,
                <<"content_preview", PyStr(content_preview)>>,
                <<"content_size", PyInt(Len(content))>>,
                <<"content", PyStr(content)>>,
                <<"metadata.is_binary", PyBool(~_is_text_file(content))>>,
                <<"metadata.line_count", PyInt(count(content, "\n") + 1)>>,
                <<"metadata.extension", PyStr(ext)>> >>
        ELSE << <<"file_path", PyStr(rel_path)>>,
                <<"error", PyStr(r.error)>>,
                <<"content", PyNone>> >>

(***************************************************************************)
(* Tree builder                                                            *)
(***************************************************************************)
INDENT == "|   "

BRANCH == "+-- "

RECURSIVE repeatStr(_, _)
repeatStr(s, n) == IF n <= 0 THEN "" ELSE s \o repeatStr(s, n - 1)

RECURSIVE treeFiles(_, _, _, _)
treeFiles(dirpath, filenames, subindent, output_file) ==
    IF filenames = <<>> THEN <<>>
    ELSE (IF join(dirpath, Head(filenames)) = output_file THEN <<>>
          ELSE <<subindent \o BRANCH \o Head(filenames)>>)
         \o treeFiles(dirpath, Tail(filenames), subindent, output_file)

RECURSIVE treeLines(_, _, _)
treeLines(entries, root_dir, output_file) ==
    IF entries = <<>> THEN <<>>
    ELSE LET e == Head(entries)
             level == count(replace(e.dirpath, root_dir, ""), sep)
             indent == repeatStr(INDENT, level)
             subindent == repeatStr(INDENT, level + 1)
         IN  <<indent \o BRANCH \o basename(e.dirpath) \o "/">>
             \o treeFiles(e.dirpath, e.filenames, subindent, output_file)
             \o treeLines(Tail(entries), root_dir, output_file)

get_directory_tree(root_dir, output_file, dsk) ==
    strjoin("\n", treeLines(walk(root_dir, dsk), root_dir, output_file)) \o "\n"

\* the paths the content loops visit: for every walk entry, every file name
\* joined to its directory
RECURSIVE joinAll(_, _)
joinAll(dirpath, filenames) ==
    IF filenames = <<>> THEN <<>>
    ELSE <<join(dirpath, Head(filenames))>> \o joinAll(dirpath, Tail(filenames))

RECURSIVE walkFiles(_)
walkFiles(entries) ==
    IF entries = <<>> THEN <<>>
    ELSE joinAll(Head(entries).dirpath, Head(entries).filenames)
         \o walkFiles(Tail(entries))

(***************************************************************************)
(* JSON and YAML serialization.  A dumped document is the sequence of its  *)
(* lines, each a (key path, scalar text) pair: json.dump keeps insertion   *)
(* order and quotes every string; yaml.dump sorts the keys of every        *)
(* mapping and writes a string plain when it can be read back as the same  *)
(* string, quoted otherwise.  json_load and yaml_load read a document back *)
(* into the set of its (key path, value) pairs.                            *)
(***************************************************************************)
escape(s) ==
    replace(replace(replace(s, "\\", "\\\\"), "\"", "\\\""), "\n", "\\n")

\* the text up to the next backslash stays; a backslash and the character
\* after it stand for one character
RECURSIVE unescape(_)
unescape(s) ==
    LET i == find(s, "\\", 1)
    IN  IF i = 0 \/ i = Len(s) THEN s
        ELSE SubSeq(s, 1, i - 1)
             \o (IF Char(s, i + 1) = "n" THEN "\n" ELSE Char(s, i + 1))
             \o unescape(SubSeq(s, i + 2, Len(s)))

Quoted(s) == "\"" \o escape(s) \o "\""

IsQuoted(t) == Len(t) >= 2 /\ Head(t) = "\""

Unquoted(t) == unescape(SubSeq(t, 2, Len(t) - 1))

AllDigits(s) == \A i \in 1..Len(s) : contains(DIGITS, Char(s, i))

JsonScalar(v) ==
    IF IsPyStr(v) THEN Quoted(Format(v))
    ELSE IF v = PyNone THEN "null"
    ELSE IF v = "True" THEN "true"
    ELSE IF v = "False" THEN "false"
    ELSE v

JsonValue(t) ==
    IF IsQuoted(t) THEN PyStr(Unquoted(t))
    ELSE IF t = "null" THEN PyNone
    ELSE IF t = "true" THEN "True"
    ELSE IF t = "false" THEN "False"
    ELSE t

\* the words and first characters a plain YAML scalar must not be or have
YamlReserved == {"", "null", "Null", "NULL", "~", "true", "True", "TRUE",
                 "false", "False", "FALSE", "yes", "no", "on", "off"}

YamlIndicators == "-?:,[]{}#&*!|>'\"%@ "

\* a text the YAML resolver would read as a date or timestamp
IsTimestampLike(s) ==
    /\ Len(s) >= 10
    /\ AllDigits(SubSeq(s, 1, 4)) /\ Char(s, 5) = "-"
    /\ AllDigits(SubSeq(s, 6, 7)) /\ Char(s, 8) = "-"
    /\ AllDigits(SubSeq(s, 9, 10))

\* a test that looks at reserved words only
YamlPlainOKWords(s) ==
    /\ s \notin YamlReserved
    /\ ~AllDigits(s)
    /\ ~IsTimestampLike(s)

\* whether yaml.dump writes the string s plain
YamlPlainOK(s) ==
    /\ s \notin YamlReserved
    /\ ~AllDigits(s)
    /\ ~IsTimestampLike(s)
    /\ ~contains(YamlIndicators, Head(s))
    /\ ~contains(s, "\n")
    /\ ~contains(s, ": ")
    /\ ~contains(s, " #")
    /\ ~endswith(s, " ")
    /\ ~endswith(s, ":")

YamlScalar(v) ==
    IF IsPyStr(v)
    THEN (IF YamlPlainOK(Format(v)) THEN Format(v) ELSE Quoted(Format(v)))
    ELSE IF v = PyNone THEN "null"
    ELSE IF v = "True" THEN "true"
    ELSE IF v = "False" THEN "false"
    ELSE v

\* a plain scalar that starts a comment reads as null
YamlValue(t) ==
    IF IsQuoted(t) THEN PyStr(Unquoted(t))
    ELSE IF t \in {"null", "~", ""} \/ Head(t) = "#" THEN PyNone
    ELSE IF t = "true" THEN "True"
    ELSE IF t = "false" THEN "False"
    ELSE IF AllDigits(t) \/ t \in {"[]", "[..]"} THEN t
    ELSE IF IsTimestampLike(t) THEN "datetime(" \o t \o ")"
    ELSE PyStr(t)

\* every key the code puts in a dict, sorted
SortedKeys ==
    << "content", "content_preview", "content_size", "directory_tree",
       "error", "export_date", "file_path", "file_type", "files",
       "last_modified", "llm_optimized", "metadata.extension",
       "metadata.is_binary", "metadata.line_count", "project_name",
       "semantic_type", "size_bytes", "structure_only" >>

RECURSIVE InsertionOrder(_)
InsertionOrder(d) ==
    IF d = <<>> THEN <<>> ELSE <<Head(d)[1]>> \o InsertionOrder(Tail(d))

Scalar(v, is_yaml) == IF is_yaml THEN YamlScalar(v) ELSE JsonScalar(v)

RECURSIVE dumpDict(_, _, _, _)
dumpDict(d, keys, prefix, is_yaml) ==
    IF keys = <<>> THEN <<>>
    ELSE (IF Has(d, Head(keys))
          THEN <<<<prefix \o Head(keys), Scalar(Get(d, Head(keys)), is_yaml)>>>>
          ELSE <<>>)
         \o dumpDict(d, Tail(keys), prefix, is_yaml)

RECURSIVE dumpList(_, _, _)
dumpList(l, i, is_yaml) ==
    IF i > Len(l) THEN <<>>
    ELSE dumpDict(l[i], IF is_yaml THEN SortedKeys ELSE InsertionOrder(l[i]),
                  "files[" \o str(i) \o "].", is_yaml)
         \o dumpList(l, i + 1, is_yaml)

FilesLine(l) == <<"files", IF l = <<>> THEN "[]" ELSE "[..]">>

\* json.dump(structure, f, indent=2): "files" is the last key inserted
json_dump(structure) ==
    dumpDict(structure.top, InsertionOrder(structure.top), "", FALSE)
    \o <<FilesLine(structure.files)>>
    \o dumpList(structure.files, 1, FALSE)

\* yaml.dump(structure, f, default_flow_style=False): keys sorted
yaml_dump(structure) ==
    dumpDict(structure.top, SelectSeqBy(SortedKeys, {"directory_tree", "export_date"}),
             "", TRUE)
    \o <<FilesLine(structure.files)>>
    \o dumpList(structure.files, 1, TRUE)
    \o dumpDict(structure.top,
                SelectSeqBy(SortedKeys, {"llm_optimized", "project_name", "structure_only"}),
                "", TRUE)

json_load(doc) == {<<doc[i][1], JsonValue(doc[i][2])>> : i \in DOMAIN doc}

yaml_load(doc) == {<<doc[i][1], YamlValue(doc[i][2])>> : i \in DOMAIN doc}

(***************************************************************************)
(* Format emitter.  Each operator returns what the call leaves behind:     *)
(*   exception  "" or the exception the call raised                        *)
(*   walks      os.walk traversals started before it returned or raised    *)
(*   opened     whether open(output_file, "w") succeeded                   *)
(*   text       the text written to a .txt or .md artifact                 *)
(*   doc        the document dumped to a .json or .yaml artifact           *)
(***************************************************************************)
write_markdown_header(root_dir) ==
    "# Project Structure: " \o basename(root_dir) \o "\n\n"
    \o "## Directory Tree\n\n^^^\n"

PermissionError(path) == "PermissionError: [Errno 13] Permission denied: '" \o path \o "'"

\* the Markdown block of generate_file_structure; the f-string raises
\* KeyError when the chunk has no semantic_type
MarkdownBlock(chunk) ==
    "\n### File: ^" \o Format(Get(chunk, "file_path")) \o "^\n"
    \o "Type: " \o Format(Get(chunk, "semantic_type")) \o "\n\n"
    \o "^^^\n"
    \o Format(Get(chunk, "content")) \o "\n"
    \o "^^^\n"

\* the content loop of generate_file_structure over the walked paths
RECURSIVE contentLoop(_, _, _, _, _, _, _, _, _)
contentLoop(paths, acc, is_markdown, root_dir, patterns, bad, dsk, open_out, now) ==
    IF paths = <<>> THEN [text |-> acc, exception |-> ""]
    ELSE LET filepath == Head(paths)
         IN  IF should_ignore(filepath, patterns)
             THEN contentLoop(Tail(paths), acc, is_markdown, root_dir,
                              patterns, bad, dsk, open_out, now)
             ELSE IF is_markdown
             THEN LET chunk == write_file_content_llm(filepath, root_dir, bad,
                                                      dsk, open_out, now)
                  IN  IF ~Has(chunk, "semantic_type")
                      THEN [text |-> acc, exception |-> "KeyError: 'semantic_type'"]
                      ELSE contentLoop(Tail(paths), acc \o MarkdownBlock(chunk),
                                       is_markdown, root_dir, patterns, bad,
                                       dsk, open_out, now)
             ELSE contentLoop(Tail(paths),
                              acc \o write_file_content(filepath, is_markdown,
                                                        root_dir, bad, dsk, open_out),
                              is_markdown, root_dir, patterns, bad, dsk,
                              open_out, now)

\* the content loop of _generate_structured_output
RECURSIVE structuredLoop(_, _, _, _, _, _, _, _)
structuredLoop(paths, root_dir, output_file, llm, patterns, bad, dsk, now) ==
    IF paths = <<>> THEN <<>>
    ELSE LET filepath == Head(paths)
             rest == structuredLoop(Tail(paths), root_dir, output_file, llm,
                                    patterns, bad, dsk, now)
             r == Read(filepath, bad, dsk, "")
         IN  IF should_ignore(filepath, patterns) THEN rest
             ELSE IF filepath = output_file THEN rest
             ELSE IF llm
             THEN <<write_file_content_llm(filepath, root_dir, bad, dsk, "", now)>>
                  \o rest
             ELSE IF r.ok
             THEN << << <<"file_path", PyStr(relpath(filepath, root_dir))>>,
                        <<"content", PyStr(r.content)>> >> >> \o rest
             ELSE << << <<"file_path", PyStr(relpath(filepath, root_dir))>>,
                        <<"error", PyStr(r.error)>> >> >> \o rest

_generate_structured_output(root_dir, output_file, is_yaml, structure_only, llm, patterns, bad, read_only, dsk, n, now) ==
    LET structure ==
            [ top |-> << <<"project_name", PyStr(basename(root_dir))>>,
                         <<"export_date", PyStr(isoformat(now))>>,
                         <<"structure_only", PyBool(structure_only)>>,
                         <<"llm_optimized", PyBool(llm)>>,
                         <<"directory_tree",
                           PyStr(get_directory_tree(root_dir, output_file, dsk))>> >>,
              files |-> IF ~structure_only
                        THEN structuredLoop(walkFiles(walk(root_dir, dsk)),
                                            root_dir, output_file, llm,
                                            patterns, bad, dsk, now)
                        ELSE <<>> ]
        walks == IF structure_only THEN 1 ELSE 2
    IN  IF read_only
        THEN [exception |-> PermissionError(output_file), walks |-> walks,
              opened |-> FALSE, disk |-> dsk, text |-> "", doc |-> <<>>]
        ELSE [exception |-> "", walks |-> walks, opened |-> TRUE,
              disk |-> [dsk EXCEPT ![output_file] = n], text |-> "",
              doc |-> IF is_yaml THEN yaml_dump(structure)
                      ELSE json_dump(structure)]

generate_file_structure(root_dir, output_file, structure_only, llm, patterns, bad, read_only, dsk, n, now) ==
    LET is_markdown == endswith(output_file, ".md")
        is_json == endswith(output_file, ".json")
        is_yaml == endswith(output_file, ".yaml")
        \* the artifact exists, empty, from open(output_file, "w") on
        dsk1 == [dsk EXCEPT ![output_file] = n]
        head == (IF is_markdown THEN write_markdown_header(root_dir) ELSE "")
                \o get_directory_tree(root_dir, output_file, dsk1)
                \o (IF is_markdown THEN "^^^\n" ELSE "")
        loop == contentLoop(walkFiles(walk(root_dir, dsk1)),
                            head \o (IF is_markdown THEN "\n## File Contents\n\n"
                                     ELSE ""),
                            is_markdown, root_dir, patterns, bad, dsk1,
                            output_file, now)
    IN  IF is_json \/ is_yaml
        THEN _generate_structured_output(root_dir, output_file, is_yaml,
                                         structure_only, llm, patterns, bad,
                                         read_only, dsk, n, now)
        ELSE IF read_only
        THEN [exception |-> PermissionError(output_file), walks |-> 0,
              opened |-> FALSE, disk |-> dsk, text |-> "", doc |-> <<>>]
        ELSE IF structure_only
        THEN [exception |-> "", walks |-> 1, opened |-> TRUE, disk |-> dsk1,
              text |-> head, doc |-> <<>>]
        ELSE [exception |-> loop.exception, walks |-> 2, opened |-> TRUE,
              disk |-> dsk1, text |-> loop.text, doc |-> <<>>]

(***************************************************************************)
(* export_project.  The format and the two checkboxes are read from their  *)
(* widgets when the handler runs; bad and read_only are the state of the   *)
(* file system during the call.                                            *)
(***************************************************************************)
NoExport ==
    [ n |-> 0, format |-> "", structure_only |-> FALSE, llm |-> FALSE,
      root |-> "", output_file |-> "", patterns |-> {}, bad |-> {},
      read_only |-> FALSE, before |-> [p \in ArtifactPaths |-> Absent],
      now |-> 0, exception |-> "", walks |-> 0, opened |-> FALSE,
      text |-> "", doc |-> <<>> ]

export_project(format, structure_only, llm, bad, read_only) ==
    IF current_dir = ""
    THEN UNCHANGED vars
    ELSE \E output_file \in {OutputFile(current_dir, format, structure_only)} :
         \E r \in {generate_file_structure(current_dir, output_file,
                                           structure_only, llm, ignore_patterns,
                                           bad, read_only, disk, exports + 1,
                                           clock)} :
             /\ disk' = r.disk
             /\ exports' = exports + 1
             /\ status_edit' = (IF r.exception = ""
                                THEN "Export completed: " \o output_file
                                ELSE status_edit)
             /\ last' = [ n |-> exports + 1, format |-> format,
                          structure_only |-> structure_only, llm |-> llm,
                          root |-> current_dir, output_file |-> output_file,
                          patterns |-> ignore_patterns, bad |-> bad,
                          read_only |-> read_only, before |-> disk,
                          now |-> clock, exception |-> r.exception,
                          walks |-> r.walks, opened |-> r.opened,
                          text |-> r.text, doc |-> r.doc ]
             /\ prev' = last
             /\ UNCHANGED <<current_dir, ignore_patterns, ignore_defaults_cb,
                            ignore_display, file_model, clock, ret>>

BadSets == {b \in SUBSET FaultCandidates : Cardinality(b) <= MaxUnreadable}

\* an unreadable file shows only when contents are read, and only when the
\* output can be opened does the export write anything
ExportProject ==
    /\ exports < MaxExports
    /\ \E format \in Range(Formats), structure_only \in BOOLEAN, llm \in BOOLEAN,
          read_only \in BOOLEAN :
           \E bad \in (IF structure_only \/ read_only THEN {{}} ELSE BadSets) :
               export_project(format, structure_only, llm, bad, read_only)

\* exports to the two structured formats, every file readable and the
\* output writable
ExportStructured ==
    /\ exports < MaxPairExports
    /\ \E format \in {"JSON", "YAML"}, structure_only \in BOOLEAN, llm \in BOOLEAN :
           export_project(format, structure_only, llm, {}, FALSE)

\* time passes
Tick ==
    /\ clock < MaxClock
    /\ clock' = clock + 1
    /\ UNCHANGED <<current_dir, ignore_patterns, ignore_defaults_cb,
                   ignore_display, file_model, status_edit, disk, exports,
                   ret, last, prev>>

\* the user deletes the artifact just written
DeleteArtifact ==
    \E p \in Present(disk) \cap {last.output_file} :
        /\ disk' = [disk EXCEPT ![p] = Absent]
        /\ UNCHANGED <<current_dir, ignore_patterns, ignore_defaults_cb,
                       ignore_display, file_model, status_edit, clock, exports,
                       ret, last, prev>>

(***************************************************************************)
(* The program after construction, in a directory that may hold artifacts  *)
(* of earlier sessions.                                                    *)
(***************************************************************************)
StaleCandidates ==
    {OutputFile(ROOT, "Text", FALSE), OutputFile(ROOT, "JSON", FALSE)}

StaleDisks ==
    { [p \in ArtifactPaths |-> IF p \in S THEN 0 ELSE Absent] :
        S \in {T \in SUBSET StaleCandidates : Cardinality(T) <= MaxStale} }

NoRet == [path |-> "", result |-> FALSE]

Init ==
    /\ current_dir = ""
    /\ ignore_patterns = DEFAULT_IGNORE_PATTERNS
    /\ ignore_defaults_cb = TRUE
    /\ ignore_display = DEFAULT_IGNORE_PATTERNS
    /\ file_model = EmptyModel
    /\ status_edit = ""
    /\ disk \in StaleDisks
    /\ clock = 0
    /\ exports = 0
    /\ ret = NoRet
    /\ last = NoExport
    /\ prev = NoExport

\* loading a folder and exporting it
Next == ProcessFolder \/ ExportProject

Spec == Init /\ [][Next]_vars

\* structured exports of the loaded folder /proj, one after the other
InitPair ==
    /\ current_dir = ROOT
    /\ ignore_patterns = DEFAULT_IGNORE_PATTERNS
    /\ ignore_defaults_cb = TRUE
    /\ ignore_display = DEFAULT_IGNORE_PATTERNS
    /\ file_model = populate_file_tree(ROOT, DEFAULT_IGNORE_PATTERNS,
                                       [p \in ArtifactPaths |-> Absent])
    /\ status_edit = "Loaded project: " \o ROOT
    /\ disk = [p \in ArtifactPaths |-> Absent]
    /\ clock = 0
    /\ exports = 0
    /\ ret = NoRet
    /\ last = NoExport
    /\ prev = NoExport

NextPair == ExportStructured \/ Tick \/ DeleteArtifact

SpecPair == InitPair /\ [][NextPair]_vars

\* the ignore set and its handlers
NextIgnore == ProcessFolder \/ ToggleDefaults \/ AddPattern \/ CallShouldIgnore

SpecIgnore == Init /\ [][NextIgnore]_vars

\* the roots get_directory_tree is called with: a dropped folder URL keeps
\* its trailing separator (toLocalFile), the folder dialog drops it
TreeRoots == {"/proj", "/proj/", "/proj/sub", "/proj/sub/", "/proj/.git"}

NoTree == [path |-> "", output_file |-> "", result |-> ""]

\* a call of get_directory_tree; ret records the call
CallGetDirectoryTree ==
    \E root_dir \in TreeRoots, output_file \in ArtifactPaths :
        /\ ret' = [path |-> root_dir, output_file |-> output_file,
                   result |-> get_directory_tree(root_dir, output_file, disk)]
        /\ UNCHANGED <<current_dir, ignore_patterns, ignore_defaults_cb,
                       ignore_display, file_model, status_edit, disk, clock,
                       exports, last, prev>>

\* the tree builder called on the directories of the project, whatever
\* artifacts earlier exports left there
InitTree ==
    /\ current_dir = ""
    /\ ignore_patterns = DEFAULT_IGNORE_PATTERNS
    /\ ignore_defaults_cb = TRUE
    /\ ignore_display = DEFAULT_IGNORE_PATTERNS
    /\ file_model = EmptyModel
    /\ status_edit = ""
    /\ disk \in StaleDisks
    /\ clock = 0
    /\ exports = 0
    /\ ret = NoTree
    /\ last = NoExport
    /\ prev = NoExport

NextTree == CallGetDirectoryTree

SpecTree == InitTree /\ [][NextTree]_vars

(***************************************************************************)
(* What an artifact shows to its reader: the tree text and the file        *)
(* entries, read back from the written text or the dumped document.        *)
(***************************************************************************)
Universe == UserFiles \cup ArtifactPaths

IsStructured(e) == e.format \in {"JSON", "YAML"}

Load(e) == IF e.format = "YAML" THEN yaml_load(e.doc) ELSE json_load(e.doc)

NoValue == "<absent>"

\* the value the loaded document d has under a key path
Field(d, key) ==
    IF \E kv \in d : kv[1] = key
    THEN (CHOOSE kv \in d : kv[1] = key)[2]
    ELSE NoValue

\* the text between the first occurrence of open and the next close
Between(text, open, close) ==
    IF find(text, open, 1) = 0 THEN ""
    ELSE SubSeq(text, find(text, open, 1) + Len(open),
                find(text, close, find(text, open, 1) + Len(open)) - 1)

\* the text before the first occurrence of mark, all of it if there is none
Before(text, mark) ==
    IF find(text, mark, 1) = 0 THEN text
    ELSE SubSeq(text, 1, find(text, mark, 1) - 1)

TreeShown(e) ==
    IF IsStructured(e) THEN Format(Field(Load(e), "directory_tree"))
    ELSE IF e.format = "Markdown" THEN Between(e.text, "^^^\n", "^^^\n")
    ELSE Before(e.text, "\n<file path=")

\* the tree line of a file or a directory of the folder
Nesting(p) == Len(components(relpath(p, ROOT)))

FileLine(p) == repeatStr(INDENT, Nesting(p)) \o BRANCH \o basename(p)

DirLine(p) == FileLine(p) \o "/"

HasTreeLine(tree, line) == contains("\n" \o tree, "\n" \o line \o "\n")

\* how many content blocks or entries artifact e has for the file p
EntryCount(e, p) ==
    IF IsStructured(e)
    THEN Cardinality({kv \in Load(e) : /\ endswith(kv[1], ".file_path")
                                       /\ kv[2] = PyStr(relpath(p, e.root))})
    ELSE IF e.format = "Markdown"
    THEN count(e.text, "### File: ^" \o relpath(p, e.root) \o "^\n")
    ELSE count(e.text, "<file path=\"" \o p \o "\">")
         + count(e.text, "<file path=\"" \o relpath(p, e.root) \o "\">")

Completed(e) == e.n > 0 /\ e.exception = ""

(***************************************************************************)
(* C1  Self-exclusion.  In every export that opened its artifact, the      *)
(* artifact's own path has no line in the directory-tree text and no       *)
(* file-content block or entry in that same artifact, whether or not a     *)
(* file existed at the output path before.                                 *)
(***************************************************************************)
C1_SelfExclusion ==
    last.opened =>
        /\ ~HasTreeLine(TreeShown(last), FileLine(last.output_file))
        /\ EntryCount(last, last.output_file) = 0

(***************************************************************************)
(* C2  Ignore filtering covers the tree and the contents.  With the        *)
(* default patterns, x.log (matches *.log), the directory .git and the     *)
(* file .git/config beneath it appear neither in the directory-tree text   *)
(* nor among the blocks or entries, and a completed content export emits   *)
(* the non-ignored files a.py and sub/b.md.                                *)
(***************************************************************************)
IgnoredDirs == {"/proj/.git"}

IgnoredFiles == {"/proj/x.log", "/proj/.git/config"}

C2_IgnoreFiltering ==
    (last.opened /\ last.patterns = DEFAULT_IGNORE_PATTERNS) =>
        /\ \A p \in IgnoredDirs : ~HasTreeLine(TreeShown(last), DirLine(p))
        /\ \A p \in IgnoredFiles :
               /\ ~HasTreeLine(TreeShown(last), FileLine(p))
               /\ EntryCount(last, p) = 0
        /\ (Completed(last) /\ ~last.structure_only) =>
               \A p \in UserFiles \ IgnoredFiles : EntryCount(last, p) = 1

\* the text from the first occurrence of open to the end of the skip-th
\* occurrence of close after it
RECURSIVE EndOf(_, _, _, _)
EndOf(text, close, from, skip) ==
    IF find(text, close, from) = 0 THEN Len(text)
    ELSE IF skip <= 1 THEN find(text, close, from) + Len(close) - 1
    ELSE EndOf(text, close, find(text, close, from) + Len(close), skip - 1)

Block(text, open, close, skip) ==
    IF find(text, open, 1) = 0 THEN ""
    ELSE SubSeq(text, find(text, open, 1),
                EndOf(text, close, find(text, open, 1) + Len(open), skip))

\* the block artifact e has for the file p, "" if it has none
BlockOf(e, p) ==
    IF e.format = "Markdown"
    THEN Block(e.text, "### File: ^" \o relpath(p, e.root) \o "^\n", "^^^\n", 2)
    ELSE IF contains(e.text, "<file path=\"" \o p \o "\">")
    THEN Block(e.text, "<file path=\"" \o p \o "\">", "</file>\n", 1)
    ELSE Block(e.text, "<file path=\"" \o relpath(p, e.root) \o "\">",
               "</file>\n", 1)

\* the key prefix ("files[2].") of the entry document d has for a file
EntryPrefix(d, rel) ==
    IF \E kv \in d : endswith(kv[1], ".file_path") /\ kv[2] = PyStr(rel)
    THEN Before((CHOOSE kv \in d : /\ endswith(kv[1], ".file_path")
                                   /\ kv[2] = PyStr(rel))[1], "file_path")
    ELSE NoValue

FieldsUnder(d, prefix) ==
    {<<SubSeq(kv[1], Len(prefix) + 1, Len(kv[1])), kv[2]>> :
        kv \in {x \in d : startswith(x[1], prefix)}}

\* the entry artifact e has for the file p: its fields, or its block
EntryOf(e, p) ==
    IF IsStructured(e)
    THEN FieldsUnder(Load(e), EntryPrefix(Load(e), relpath(p, e.root)))
    ELSE {<<"block", BlockOf(e, p)>>}

ErrorMark == "Unable to read file content: "

\* the entry of p carries a non-empty error text
ErrorShown(e, p) ==
    IF IsStructured(e)
    THEN \E kv \in EntryOf(e, p) :
             kv[1] = "error" /\ IsPyStr(kv[2]) /\ Format(kv[2]) # ""
    ELSE /\ contains(BlockOf(e, p), ErrorMark)
         /\ ~contains(BlockOf(e, p), ErrorMark \o "\n")

\* the entry of p carries no content
ContentAbsent(e, p) ==
    IF IsStructured(e)
    THEN \A kv \in EntryOf(e, p) : kv[1] = "content" => kv[2] = PyNone
    ELSE ~contains(BlockOf(e, p), FileText(p))

\* the same export with every file readable
Undisturbed(e) ==
    [e EXCEPT !.bad = {},
              !.text = generate_file_structure(e.root, e.output_file,
                           e.structure_only, e.llm, e.patterns, {}, FALSE,
                           e.before, e.n, e.now).text,
              !.doc = generate_file_structure(e.root, e.output_file,
                           e.structure_only, e.llm, e.patterns, {}, FALSE,
                           e.before, e.n, e.now).doc]

SiblingsSame(e, e0) ==
    \A p \in Universe \ e.bad : EntryOf(e, p) = EntryOf(e0, p)

(***************************************************************************)
(* C4  Error containment.  In every format and flag combination, a content *)
(* export during which one file cannot be read still completes; the        *)
(* artifact has one entry for that file, with a non-empty error text and   *)
(* no content, and the entry of every other file is what it is when every  *)
(* file can be read.                                                       *)
(***************************************************************************)
C4_ErrorContainment ==
    (last.n > 0 /\ ~last.structure_only /\ ~last.read_only /\ last.bad # {}) =>
        /\ last.exception = ""
        /\ \A p \in last.bad :
               /\ EntryCount(last, p) = 1
               /\ ErrorShown(last, p)
               /\ ContentAbsent(last, p)
        /\ SiblingsSame(last, Undisturbed(last))

(***************************************************************************)
(* C5  Fatal errors leave no partial artifact.  An export that cannot open *)
(* its output path fails before any directory traversal has started, and   *)
(* no export that ends in an error has written to the file at its output   *)
(* path.                                                                   *)
(***************************************************************************)
C5_FatalErrors ==
    (last.n > 0 /\ last.exception # "") =>
        /\ last.read_only => last.walks = 0
        /\ ~last.opened
        /\ disk[last.output_file] # last.n

(***************************************************************************)
(* C9  Artifact naming.  An export writes no file other than               *)
(* <root>/<basename(root)>_structure<suffix><ext>, with suffix             *)
(* "_and_content" exactly when structure-only is off and ext .txt, .md,    *)
(* .json, .yaml for Text, Markdown, JSON, YAML; an export that opened its  *)
(* output wrote exactly that one file.                                     *)
(***************************************************************************)
ExpectedExt(format) ==
    CASE format = "Text" -> ".txt"
      [] format = "Markdown" -> ".md"
      [] format = "JSON" -> ".json"
      [] format = "YAML" -> ".yaml"

\* the root of every export of the model is /proj, whose basename is proj
ExpectedPath(e) ==
    "/proj/" \o "proj" \o "_structure"
    \o (IF e.structure_only THEN "" ELSE "_and_content")
    \o ExpectedExt(e.format)

WrittenBy(e) == {p \in DOMAIN disk : disk[p] = e.n}

C9_ArtifactNaming ==
    last.n > 0 =>
        /\ WrittenBy(last) \subseteq {ExpectedPath(last)}
        /\ last.opened => WrittenBy(last) = {ExpectedPath(last)}

C9_Witness ==
    /\ last.opened /\ last.structure_only /\ last.format = "YAML"
    /\ last.before["/proj/proj_structure.yaml"] = Absent
    /\ WrittenBy(last) = {"/proj/proj_structure.yaml"}

(***************************************************************************)
(* C10  Markdown dispatch on the LLM flag.  In a completed Markdown        *)
(* content export every file block carries a "Type:" annotation when the   *)
(* LLM-optimize flag is on, and none does when the flag is off.            *)
(***************************************************************************)
HasTypeAnnotation(e, p) == contains(BlockOf(e, p), "^\nType: ")

C10_MarkdownDispatch ==
    (Completed(last) /\ last.format = "Markdown" /\ ~last.structure_only) =>
        \A p \in Universe :
            EntryCount(last, p) > 0 => (HasTypeAnnotation(last, p) <=> last.llm)

(***************************************************************************)
(* C3  Structure-only versus full export.  Of two completed exports of the *)
(* same root in the same format, run one after the other, one with         *)
(* structure-only on and one with it off: the first kind has no content    *)
(* entry, both show the same tree text, and the full one has exactly one   *)
(* entry for every file of the folder that is neither ignored (by its own  *)
(* name or by a directory above it) nor the artifact itself, and no other. *)
(***************************************************************************)
IgnoredPath(p, root, patterns) ==
    \E c \in Range(components(relpath(p, root))) :
        \E pattern \in patterns : fnmatch(c, pattern)

ExpectedEntries(e) ==
    {p \in UserFiles \cup Present(e.before) :
        p # e.output_file /\ ~IgnoredPath(p, e.root, e.patterns)}

TreeOnlyAndFull(s, f) ==
    /\ TreeShown(s) = TreeShown(f)
    /\ \A p \in Universe : EntryCount(s, p) = 0
    /\ \A p \in Universe :
           EntryCount(f, p) = (IF p \in ExpectedEntries(f) THEN 1 ELSE 0)

C3_StructureVsFull ==
    ( /\ Completed(prev) /\ Completed(last)
      /\ prev.root = last.root /\ prev.format = last.format
      /\ prev.patterns = last.patterns
      /\ prev.structure_only # last.structure_only ) =>
        IF last.structure_only THEN TreeOnlyAndFull(last, prev)
        ELSE TreeOnlyAndFull(prev, last)

(***************************************************************************)
(* C6  Format equivalence.  A JSON export and a YAML export with the same  *)
(* flags and ignore set that start from the same contents of the folder,   *)
(* holding neither of the two artifacts, write structures whose            *)
(* project_name, structure_only, llm_optimized, directory_tree and files   *)
(* have identical logical values; export_date is the time of each export.  *)
(***************************************************************************)
JsonYamlPair(j, y) ==
    /\ Completed(j) /\ Completed(y)
    /\ j.format = "JSON" /\ y.format = "YAML"
    /\ j.root = y.root /\ j.patterns = y.patterns
    /\ j.structure_only = y.structure_only /\ j.llm = y.llm

SameStart(j, y) ==
    /\ j.before = y.before
    /\ j.before[j.output_file] = Absent
    /\ j.before[y.output_file] = Absent

Except(d, key) == {kv \in d : kv[1] # key}

EquivalentButDate(j, y) ==
    /\ Except(json_load(j.doc), "export_date")
           = Except(yaml_load(y.doc), "export_date")
    /\ Field(json_load(j.doc), "export_date") = PyStr(isoformat(j.now))
    /\ Field(yaml_load(y.doc), "export_date") = PyStr(isoformat(y.now))

C6_FormatEquivalence ==
    /\ (JsonYamlPair(prev, last) /\ SameStart(prev, last))
           => EquivalentButDate(prev, last)
    /\ (JsonYamlPair(last, prev) /\ SameStart(last, prev))
           => EquivalentButDate(last, prev)

C6_Witness ==
    /\ JsonYamlPair(prev, last) /\ SameStart(prev, last)
    /\ ~last.structure_only /\ last.llm
    /\ prev.now # last.now
    /\ EntryCount(last, "/proj/sub/b.md") = 1

\* C6 as stated: a JSON export and a YAML export of the same folder with
\* the same flags write identical logical values for every field,
\* export_date included
C6_EveryFieldIdentical ==
    /\ JsonYamlPair(prev, last) => json_load(prev.doc) = yaml_load(last.doc)
    /\ JsonYamlPair(last, prev) => json_load(last.doc) = yaml_load(prev.doc)

(***************************************************************************)
(* C7  should_ignore.  A call returns true exactly when some pattern of    *)
(* the current ignore set glob-matches the final segment of the path, and  *)
(* the call changes nothing but the caller's record of its result.         *)
(***************************************************************************)
\* the final segment of every probed path
FinalSegment ==
    [ path \in ProbePaths |->
        CASE path = "/proj/a.py" -> "a.py"
          [] path = "/proj/x.log" -> "x.log"
          [] path = "/proj/.git" -> ".git"
          [] path = "/proj/.git/config" -> "config"
          [] path = "/proj/sub" -> "sub"
          [] path = "/proj/sub/b.md" -> "b.md"
          [] path = "/proj/" -> ""
          [] path = "/proj" -> "proj" ]

\* the (name, pattern) pairs of the model that glob-match
GlobMatches ==
    { <<".git", ".git">>, <<"x.log", "*.log">>, <<"b.md", "*.md">>,
      <<"a.py", "a.py">>, <<"a.py", "[ab].py">>, <<"proj", "proj">> }

C7_ShouldIgnore ==
    [][ret' # ret =>
          /\ ret'.result = (\E pattern \in ignore_patterns :
                                <<FinalSegment[ret'.path], pattern>> \in GlobMatches)
          /\ UNCHANGED <<current_dir, ignore_patterns, ignore_defaults_cb,
                         ignore_display, file_model, status_edit, disk, clock,
                         exports, last, prev>>]_vars

\* b.md was ignored for its name under a custom pattern, and the file
\* beneath .git is not ignored
C7_Witness ==
    \/ /\ ret.path = "/proj/sub/b.md" /\ ret.result
       /\ "*.md" \in ignore_patterns
    \/ /\ ret.path = "/proj/.git/config" /\ ~ret.result
       /\ ".git" \in ignore_patterns

(***************************************************************************)
(* C8  Default reset.  Whatever the ignore set holds, the step that checks *)
(* "Use Default Ignore Patterns" again leaves it equal, as a set, to the   *)
(* 15 documented default patterns.                                         *)
(***************************************************************************)
DocumentedDefaults ==
    { ".git", ".gitignore", "__pycache__", "*.pyc", ".DS_Store",
      "node_modules", ".idea", ".vscode", "*.log", "*.tmp", "*.temp",
      "*.swp", "~*", "Thumbs.db", "desktop.ini" }

C8_DefaultReset ==
    [][(~ignore_defaults_cb /\ ignore_defaults_cb') =>
          /\ ignore_patterns' = DocumentedDefaults
          /\ Cardinality(ignore_patterns') = 15]_vars

\* the set is the defaults again although b.md was ignored, under the
\* custom pattern *.md, by an earlier call
C8_Witness ==
    /\ ignore_defaults_cb
    /\ ignore_patterns = DocumentedDefaults
    /\ ret.path = "/proj/sub/b.md" /\ ret.result

(***************************************************************************)
(* C11  Tag-format paths.  In a Text content export the path attribute of  *)
(* every <file path="..."> block is the path of a file relative to the     *)
(* root, with forward slashes: every block is one of those, and no block   *)
(* carries an absolute path.                                               *)
(***************************************************************************)
RelativeTag(e, p) == "<file path=\"" \o relpath(p, e.root) \o "\">"

AbsoluteTag(p) == "<file path=\"" \o p \o "\">"

C11_TagPaths ==
    (last.opened /\ last.format = "Text" /\ ~last.structure_only) =>
        /\ \A p \in Universe : ~contains(last.text, AbsoluteTag(p))
        /\ count(last.text, "<file path=\"")
               = Cardinality({p \in Universe :
                                 contains(last.text, RelativeTag(last, p))})
        /\ ~contains(last.text, "\\")

(***************************************************************************)
(* C12  Decode failure in LLM-optimized mode.  In a completed structured   *)
(* content export with the LLM flag on, a file whose bytes cannot be       *)
(* decoded has one record, and that record carries is_binary = true.       *)
(***************************************************************************)
C12_DecodeFailure ==
    ( /\ Completed(last) /\ IsStructured(last)
      /\ last.llm /\ ~last.structure_only ) =>
        \A p \in last.bad \cap DecodeFaults :
            /\ EntryCount(last, p) = 1
            /\ <<"metadata.is_binary", PyBool(TRUE)>> \in EntryOf(last, p)


(***************************************************************************)
(* The tree listing                                                        *)
(***************************************************************************)
\* the lines of a tree text
LinesOf(text) ==
    LET parts == split(text, "\n") IN SubSeq(parts, 1, Len(parts) - 1)

\* the listing of a directory at nesting depth d: the directory, then its
\* files one level deeper, then each of its subdirectories in turn
RECURSIVE Listing(_, _, _, _)
RECURSIVE ListingEach(_, _, _, _, _)
Listing(dir, d, output_file, dsk) ==
    LET shown == SelectSeq(Filenames(dir, dsk),
                           LAMBDA f : join(dir, f) # output_file)
    IN  <<[name |-> basename(dir), depth |-> d, dir |-> TRUE]>>
        \o [i \in 1..Len(shown) |->
               [name |-> shown[i], depth |-> d + 1, dir |-> FALSE]]
        \o ListingEach(dir, Dirnames(dir), d, output_file, dsk)

ListingEach(dir, names, d, output_file, dsk) ==
    IF names = <<>> THEN <<>>
    ELSE Listing(join(dir, Head(names)), d + 1, output_file, dsk)
         \o ListingEach(dir, Tail(names), d, output_file, dsk)

\* the line of a listed entry: one indent unit per level of depth
ListedLine(e) ==
    repeatStr(INDENT, e.depth) \o BRANCH \o e.name
    \o (IF e.dir THEN "/" ELSE "")

\* C13: whatever root the tree builder is given, with or without a trailing
\* separator, its lines are the depth-first pre-order listing of the root
\* (each directory, then its files, then its subdirectories); the root line
\* carries no indent unit, a directory at depth d carries d of them and each
\* of its files d+1.
C13_TreeOrderAndIndent ==
    ret.path # "" =>
        LET lines == LinesOf(ret.result)
            want == Listing(normpath(ret.path), 0, ret.output_file, disk)
        IN  /\ Len(lines) = Len(want)
            /\ startswith(lines[1], BRANCH)
            /\ \A i \in 2..Len(want) : lines[i] = ListedLine(want[i])

(***************************************************************************)
(* The ignore set and its checkbox                                         *)
(***************************************************************************)
\* the inputs that are empty or hold white space only
BlankInputs == {t \in PatternInputs : \A i \in 1..Len(t) : IsSpace(Char(t, i))}

\* C14: from the initial state on, through any sequence of add-pattern and
\* toggle-defaults operations: while the checkbox is checked each of the 15
\* default patterns is in the ignore set; unchecking the box empties the set
\* and, while the box stays unchecked, the set changes only by an add-pattern
\* operation, which only adds to it; and add-pattern with an empty or
\* white-space-only input leaves the set as it was.
C14_IgnoreSetInvariant ==
    /\ [](ignore_defaults_cb =>
             Cardinality(DocumentedDefaults \cap ignore_patterns) = 15)
    /\ [][(ignore_defaults_cb /\ ~ignore_defaults_cb') =>
             ignore_patterns' = {}]_vars
    /\ [][(~ignore_defaults_cb /\ ~ignore_defaults_cb'
           /\ ignore_patterns' # ignore_patterns) =>
             /\ ignore_patterns \subseteq ignore_patterns'
             /\ \E text \in PatternInputs : add_ignore_pattern(text)]_vars
    /\ [][\A text \in BlankInputs :
             add_ignore_pattern(text) => ignore_patterns' = ignore_patterns]_vars

\* the box was unchecked and two patterns were added since
C14_Witness ==
    /\ ~ignore_defaults_cb
    /\ ignore_patterns = {"*.md", "a.py"}
====
